---- MODULE Spec2Model ----
(***************************************************************************)
(* A model of rust-git: the object store, the staging index, the commit   *)
(* log, the branch refs and HEAD, and the commands add, rm, commit, log,  *)
(* branch and checkout that act on them.                                   *)
(*                                                                         *)
(* Text is modelled as a sequence of one-character strings, so that the    *)
(* string conversions of the code (trim, replace, split, starts_with) are  *)
(* computed and not assumed.  The program is built for Windows (winapi,    *)
(* encode_wide): a canonical path is separated by backslashes.             *)
(***************************************************************************)
EXTENDS Naturals, Sequences, FiniteSets, TLC

VARIABLES
    wt,        \* working tree: canonical relative path -> file content
    index,     \* .rust-git/index: the JSON array of {path, hash} entries
    indexFile, \* what .rust-git/index holds: "array", or why it holds none
    objects,   \* .rust-git/objects/<dir>/<file>: hash -> stored bytes
    objDirs,   \* the bucket directories that exist under .rust-git/objects
    refs,      \* .rust-git/refs/heads/<name>: branch name -> commit id text
    HEAD,      \* .rust-git/HEAD: its text
    logText,   \* .rust-git/logs/commits: its text
    now,       \* the last value read from the clock (seconds)
    last,      \* the last command run, its argument and how it ended
    made       \* history: the Commit values returned by create_commit, in order

vars == <<wt, index, indexFile, objects, objDirs, refs, HEAD, logText, now, last, made>>

(***************************************************************************)
(* Bounds and input sets                                                   *)
(***************************************************************************)
MaxCommits == 1
MaxTwiceCommits == 2
MaxDirCommits == 0
MaxObjects == 1

master == <<"m", "a", "s", "t", "e", "r">>
feat == <<"f", "t">>
spFeat == <<" ", "f", "t">>
nested == <<"d", "\\", "a">>
nestedSlash == <<"d", "/", "a">>
nested2 == <<"d", "\\", "b">>
dirD == <<"d">>
dot == <<".">>
rustGit == <<".rust-git">>

\* The regular files the user may keep in the working tree, in canonical
\* form.  feat is also a legal branch name.
WtFiles == {feat, nested}
\* The directories of the working tree (they exist throughout).
WtDirs == {dirD}
FileContents(f) ==
    CASE f = feat -> {"hello", "world"}
      [] f = nested2 -> {"world"}
      [] OTHER -> {"hello"}

\* The arguments the commands are run with.  Spec runs every command over
\* two files; SpecLog commits one file under messages with line breaks;
\* SpecRefs adds the branch names with leading white space, the empty one
\* and one with a separator; SpecDir keeps two files in one directory and
\* stages them, committing nothing;
\* SpecTwice commits twice; SpecMeta adds the repository root and .rust-git.
PathArgs == {feat, nestedSlash, dirD}
NameArgs == {master, feat}
TargetArgs == {master, feat}
Messages == {<<"m">>}

LogMessages == {<<"m">>, <<"a", "\n", "b">>, <<"a", "\n", "\n", "b">>}

RefsNameArgs == {master, feat, spFeat, <<>>, nestedSlash}
RefsTargetArgs == {master, feat, spFeat}

DirFiles == {feat, nested, nested2}
DirPathArgs == {feat, dirD}

TwiceFiles == {feat, nested}
TwicePathArgs == {feat, nestedSlash}

MetaPathArgs == {dot, rustGit}
\* restore: feat is staged and committed, nested stays outside the snapshots;
\* "ft" names a file and a branch
RestoreFiles == {feat, nested}
RestorePathArgs == {feat}
RestoreNameArgs == {feat}

\* The index file after the user removed it, wrote text that is no JSON, or
\* wrote JSON that is no array.
BrokenForms == {"missing", "malformed", "not_array"}

(***************************************************************************)
(* Strings                                                                 *)
(***************************************************************************)
Whitespace == {" ", "\n", "\t", "\r"}

RECURSIVE trim_start(_)
trim_start(s) ==
    IF s # <<>> /\ Head(s) \in Whitespace THEN trim_start(Tail(s)) ELSE s

RECURSIVE trim_end(_)
trim_end(s) ==
    IF s # <<>> /\ s[Len(s)] \in Whitespace
    THEN trim_end(SubSeq(s, 1, Len(s) - 1))
    ELSE s

trim(s) == trim_end(trim_start(s))

starts_with(s, p) == Len(s) >= Len(p) /\ SubSeq(s, 1, Len(p)) = p

RECURSIVE trim_start_matches(_, _)
trim_start_matches(s, p) ==
    IF p # <<>> /\ starts_with(s, p)
    THEN trim_start_matches(SubSeq(s, Len(p) + 1, Len(s)), p)
    ELSE s

contains(s, c) == \E i \in 1..Len(s) : s[i] = c

normalize_path(p) == [i \in 1..Len(p) |-> IF p[i] = "\\" THEN "/" ELSE p[i]]

\* The separators of a canonicalized Windows path, taken relative to the
\* repository root: "." is the root itself, the empty path.
Canonical(p) ==
    IF p = dot THEN <<>>
    ELSE [i \in 1..Len(p) |-> IF p[i] = "/" THEN "\\" ELSE p[i]]

(***************************************************************************)
(* Working tree                                                            *)
(***************************************************************************)
is_file(tree, p) == p \in DOMAIN tree
is_dir(p) == p \in WtDirs \cup {<<>>, rustGit}
exists(tree, p) == is_file(tree, p) \/ is_dir(p)

\* canonicalize fails for a path that does not exist.
get_absolute_path(tree, p) ==
    IF exists(tree, Canonical(p))
    THEN [ok |-> TRUE, path |-> Canonical(p)]
    ELSE [ok |-> FALSE, path |-> <<>>]

write_file(tree, p, c) ==
    [f \in DOMAIN tree \cup {p} |-> IF f = p THEN c ELSE tree[f]]

\* the file is left where it is
remove_file_keep(tree, p) == tree

remove_file(tree, p) == [f \in DOMAIN tree \ {p} |-> tree[f]]

\* Path::starts_with: d is a leading run of whole components of f
under(f, d) == d = <<>> \/ starts_with(f, d \o <<"\\">>)

Beneath(tree, d) == {f \in DOMAIN tree : under(f, d)}

remove_dir_all(tree, d) == [f \in DOMAIN tree \ Beneath(tree, d) |-> tree[f]]

(***************************************************************************)
(* Object store.  A hash is the text <<dir_part, file_part>>: the first    *)
(* element stands for its first two hex characters, the second for the     *)
(* remaining ones; the empty text is <<>>.  SHA-1 is taken collision free: *)
(* the file part determines the bytes.  Bytes are tagged with the          *)
(* serializer that produced them.                                          *)
(***************************************************************************)
BlobBytes(c) == [kind |-> "blob", data |-> c]
TreeBytes(idx) == [kind |-> "tree", data |-> idx]

DirPart(bytes) ==
    CASE bytes.kind = "blob" -> "bl"
      [] bytes.kind = "tree" -> "tr"
      [] bytes.kind = "index" -> "ix"
      [] bytes.kind = "head" -> "he"
      [] bytes.kind = "ref" -> "re"
      [] bytes.kind = "log" -> "lo"
      [] bytes.kind = "text" -> "te"
      [] OTHER -> "co"

Sha1(bytes) == <<DirPart(bytes), bytes>>

\* disk maps the path of every regular file to its bytes
hash_file(disk, p) == Sha1(disk[p])

\* the write is skipped when the bucket directory is already there
store_object_new_dir_only(st, hash, content) ==
    IF hash[1] \in st.dirs THEN st
    ELSE [dirs |-> st.dirs \cup {hash[1]},
          files |-> [h \in DOMAIN st.files \cup {hash} |->
                        IF h = hash THEN content ELSE st.files[h]]]

\* the bucket directory is emptied before the write
store_object_fresh_dir(st, hash, content) ==
    [dirs |-> st.dirs \cup {hash[1]},
     files |-> [h \in {x \in DOMAIN st.files : x[1] # hash[1]} \cup {hash} |->
                   IF h = hash THEN content ELSE st.files[h]]]

store_object(st, hash, content) ==
    [dirs |-> st.dirs \cup {hash[1]},
     files |-> [h \in DOMAIN st.files \cup {hash} |->
                   IF h = hash THEN content ELSE st.files[h]]]

\* split_at(2) panics on a text shorter than two characters.
read_object(files, hash) ==
    IF hash = <<>> THEN [res |-> "panic", bytes |-> BlobBytes("")]
    ELSE IF hash \in DOMAIN files THEN [res |-> "ok", bytes |-> files[hash]]
    ELSE [res |-> "ObjectNotFound", bytes |-> BlobBytes("")]

(***************************************************************************)
(* The regular files on disk, by canonical path relative to the root: the  *)
(* working tree and the files of .rust-git.  The index is written pretty,  *)
(* the snapshot of a commit compact: their bytes differ.  An object is     *)
(* stored under the digest of its raw bytes, so the digest of an object    *)
(* file is its own address.                                                *)
(***************************************************************************)
HeadPath == rustGit \o <<"\\", "HEAD">>
IndexPath == rustGit \o <<"\\", "index">>
LogPath == rustGit \o <<"\\", "logs", "\\", "commits">>
RefPath(name) == rustGit \o <<"\\", "refs", "\\", "heads", "\\">> \o name
ObjectPath(hash) ==
    rustGit \o <<"\\", "objects", "\\", hash[1], "\\", ToString(hash[2])>>

IndexBytes(form, idx) ==
    IF form = "array" THEN [kind |-> "index", data |-> idx]
    ELSE [kind |-> "text", data |-> form]
HeadBytes(head) == [kind |-> "head", data |-> head]
RefBytes(commit_id) == [kind |-> "ref", data |-> commit_id]
LogBytes(text) == [kind |-> "log", data |-> text]

\* the files that no walk creates: the working tree, index, HEAD, refs, log
BaseFiles(tree, form, idx, head, rf, text) ==
    LET paths == DOMAIN tree \cup {HeadPath}
                     \cup (IF form = "missing" THEN {} ELSE {IndexPath})
                     \cup {RefPath(b) : b \in DOMAIN rf}
                     \cup (IF text = <<>> THEN {} ELSE {LogPath})
    IN [f \in paths |->
           CASE f \in DOMAIN tree -> BlobBytes(tree[f])
             [] f = HeadPath -> HeadBytes(head)
             [] f = IndexPath -> IndexBytes(form, idx)
             [] f = LogPath -> LogBytes(text)
             [] OTHER -> RefBytes(rf[CHOOSE b \in DOMAIN rf : RefPath(b) = f])]

ObjectFiles(files) ==
    [f \in {ObjectPath(h) : h \in DOMAIN files} |->
        files[CHOOSE h \in DOMAIN files : ObjectPath(h) = f]]

DiskOf(base, files) == base @@ ObjectFiles(files)

\* the directories a path lies in
Dirs(p) == {SubSeq(p, 1, k - 1) : k \in {i \in 1..Len(p) : p[i] = "\\"}}

\* WalkDir descends into a directory when it meets it and leaves it when its
\* entries are exhausted: f may follow the files visited when every
\* directory it shares with one of them was not left since.
DepthFirst(visited, f) ==
    \A i \in 1..Len(visited) : \A d \in Dirs(visited[i]) \cap Dirs(f) :
        \A j \in i..Len(visited) : d \in Dirs(visited[j])

(***************************************************************************)
(* Staging index                                                           *)
(***************************************************************************)
\* [res, is_array, entries]: read_to_string, then serde_json::from_str
read_index(form, idx) ==
    CASE form = "missing" -> [res |-> "IoFailure", is_array |-> FALSE, entries |-> <<>>]
      [] form = "malformed" -> [res |-> "ParseFailure", is_array |-> FALSE, entries |-> <<>>]
      [] form = "not_array" -> [res |-> "ok", is_array |-> FALSE, entries |-> <<>>]
      [] OTHER -> [res |-> "ok", is_array |-> TRUE, entries |-> idx]

HasPath(idx, p) == \E i \in 1..Len(idx) : idx[i].path = p

FirstAt(idx, p) == CHOOSE i \in 1..Len(idx) :
    idx[i].path = p /\ \A j \in 1..(i - 1) : idx[j].path # p

\* the entry is appended without looking for the path
upsert_entry_append(idx, p, h) == Append(idx, [path |-> p, hash |-> h])

upsert_entry(idx, p, h) ==
    IF HasPath(idx, p)
    THEN [idx EXCEPT ![FirstAt(idx, p)].hash = h]
    ELSE Append(idx, [path |-> p, hash |-> h])

\* the entry is recorded without storing the blob
add_single_file_unstored(disk, st, file_path) ==
    [idx |-> upsert_entry(st.idx, normalize_path(file_path), hash_file(disk, file_path)),
     dirs |-> st.dirs,
     files |-> st.files]

\* st is [idx, dirs, files]; file_path is canonical and names a file.
add_single_file(disk, st, file_path) ==
    LET file_hash == hash_file(disk, file_path)
        file_content == disk[file_path]
        stored == store_object([dirs |-> st.dirs, files |-> st.files],
                               file_hash, file_content)
        normalized_rel_path == normalize_path(file_path)
    IN [idx |-> upsert_entry(st.idx, normalized_rel_path, file_hash),
        dirs |-> stored.dirs,
        files |-> stored.files]

Range(seq) == {seq[i] : i \in 1..Len(seq)}

\* the walk ends after the first file it meets
add_walk_one(base, dir, st, must, visited) ==
    IF must = {} THEN {st}
    ELSE {add_single_file(DiskOf(base, st.files), st, f) : f \in must}

\* The set of the [idx, dirs, files] a walk of dir may end with.  The order
\* of the entries of a directory is the file system's; every file there at
\* the start (must) is visited; an object the walk itself stored is visited
\* if its directory is read after the store.
RECURSIVE add_walk(_, _, _, _, _)
add_walk(base, dir, st, must, visited) ==
    LET disk == DiskOf(base, st.files)
        entries == {f \in DOMAIN disk :
                       under(f, dir) /\ f \notin Range(visited) /\ DepthFirst(visited, f)}
    IN (IF must \subseteq Range(visited) THEN {st} ELSE {})
       \cup UNION {add_walk(base, dir, add_single_file(disk, st, f), must,
                            Append(visited, f)) : f \in entries}

retain(idx, rel_path) == SelectSeq(idx, LAMBDA e : e.path # rel_path)

(***************************************************************************)
(* Commits and the commit log                                              *)
(***************************************************************************)
\* the emptiness test is lost
is_empty_never(idx) == FALSE

is_empty(idx) == Len(idx) = 0

\* only the entry staged last is recorded
generate_tree_hash_last(idx, st) ==
    LET index_str == TreeBytes(SubSeq(idx, Len(idx), Len(idx)))
        tree_hash == Sha1(index_str)
        stored == store_object(st, tree_hash, index_str)
    IN [hash |-> tree_hash, dirs |-> stored.dirs, files |-> stored.files]

\* [hash, dirs, files]: the index serialized, hashed and stored.
generate_tree_hash(idx, st) ==
    LET index_str == TreeBytes(idx)
        tree_hash == Sha1(index_str)
        stored == store_object(st, tree_hash, index_str)
    IN [hash |-> tree_hash, dirs |-> stored.dirs, files |-> stored.files]

CommitBytes(tree_hash, timestamp, message) ==
    [kind |-> "commit",
     data |-> [tree |-> tree_hash, timestamp |-> timestamp, message |-> message]]

\* [commit, dirs, files]
create_commit(idx, st, message, timestamp) ==
    LET tree == generate_tree_hash(idx, st)
        commit_content == CommitBytes(tree.hash, timestamp, message)
        commit_id == Sha1(commit_content)
        stored == store_object([dirs |-> tree.dirs, files |-> tree.files],
                               commit_id, commit_content)
    IN [commit |-> [id |-> commit_id, message |-> message,
                    author |-> "RustGit", timestamp |-> timestamp,
                    tree_hash |-> tree.hash],
        dirs |-> stored.dirs,
        files |-> stored.files]

\* The first line of the commit text is "tree <hash>": lines().find returns it.
parse_commit(commit_content) == commit_content.data.tree

(***************************************************************************)
(* The log text is a sequence of tokens [k, v].  A character c is the      *)
(* token [k |-> c]; "[<id>] " is one token of kind "hdr"; the pretty JSON  *)
(* of a Commit is "{", line break, one token of kind "json" carrying the   *)
(* Commit (its strings escaped: no raw line break), line break, "}".       *)
(***************************************************************************)
Ch(c) == [k |-> c, v |-> <<>>]
Chars(s) == [i \in 1..Len(s) |-> Ch(s[i])]
Kinds(toks) == [i \in 1..Len(toks) |-> toks[i].k]

to_string_pretty(commit) ==
    <<Ch("{"), Ch("\n"), [k |-> "json", v |-> <<commit>>], Ch("\n"), Ch("}")>>

\* format!("[{}] {}\n{}\n\n", id, message, commit_json) appended to the log
save_commit(text, commit) ==
    text \o <<[k |-> "hdr", v |-> commit.id]>> \o Chars(commit.message)
         \o <<Ch("\n")>> \o to_string_pretty(commit) \o <<Ch("\n"), Ch("\n")>>

RECURSIVE replace_crlf(_)
replace_crlf(t) ==
    IF t = <<>> THEN <<>>
    ELSE IF Len(t) >= 2 /\ t[1].k = "\r" /\ t[2].k = "\n"
         THEN <<t[2]>> \o replace_crlf(SubSeq(t, 3, Len(t)))
         ELSE <<t[1]>> \o replace_crlf(Tail(t))

\* split("\n\n"): the pieces between non-overlapping matches, left to right
RECURSIVE split_blank(_, _)
split_blank(t, cur) ==
    IF t = <<>> THEN <<cur>>
    ELSE IF Len(t) >= 2 /\ t[1].k = "\n" /\ t[2].k = "\n"
         THEN <<cur>> \o split_blank(SubSeq(t, 3, Len(t)), <<>>)
         ELSE split_blank(Tail(t), Append(cur, t[1]))

RECURSIVE trim_tokens_start(_)
trim_tokens_start(t) ==
    IF t # <<>> /\ t[1].k \in Whitespace THEN trim_tokens_start(Tail(t)) ELSE t

RECURSIVE trim_tokens_end(_)
trim_tokens_end(t) ==
    IF t # <<>> /\ t[Len(t)].k \in Whitespace
    THEN trim_tokens_end(SubSeq(t, 1, Len(t) - 1))
    ELSE t

trim_tokens(t) == trim_tokens_end(trim_tokens_start(t))

\* 0 when the entry has no line break
find_newline(t) ==
    IF \E i \in 1..Len(t) : t[i].k = "\n"
    THEN CHOOSE i \in 1..Len(t) :
             t[i].k = "\n" /\ \A j \in 1..(i - 1) : t[j].k # "\n"
    ELSE 0

\* serde_json::from_str::<Commit>: one JSON object, whitespace around it allowed
from_str(t) ==
    LET j == trim_tokens(t)
    IN IF Kinds(j) = <<"{", "\n", "json", "\n", "}">>
       THEN [ok |-> TRUE, commit |-> j[3].v]
       ELSE [ok |-> FALSE, commit |-> <<>>]

\* [ok, commits]: the entries parsed in file order; the first bad JSON fails
RECURSIVE parse_entries(_)
parse_entries(entries) ==
    IF entries = <<>> THEN [ok |-> TRUE, commits |-> <<>>]
    ELSE LET entry == trim_tokens(Head(entries))
             pos == find_newline(entry)
             rest == parse_entries(Tail(entries))
         IN IF entry = <<>> \/ pos = 0 THEN rest
            ELSE LET parsed == from_str(SubSeq(entry, pos + 1, Len(entry)))
                 IN IF ~parsed.ok THEN [ok |-> FALSE, commits |-> <<>>]
                    ELSE IF ~rest.ok THEN rest
                    ELSE [ok |-> TRUE, commits |-> parsed.commit \o rest.commits]

\* sort_by(|a, b| b.timestamp.cmp(&a.timestamp)): stable, newest first
RECURSIVE sort_desc(_)
sort_desc(cs) ==
    IF cs = <<>> THEN <<>>
    ELSE LET init == sort_desc(SubSeq(cs, 1, Len(cs) - 1))
             c == cs[Len(cs)]
             keep == Cardinality({i \in 1..Len(init) : init[i].timestamp >= c.timestamp})
         IN SubSeq(init, 1, keep) \o <<c>> \o SubSeq(init, keep + 1, Len(init))

read_all_commits(text) ==
    LET parsed == parse_entries(split_blank(replace_crlf(text), <<>>))
    IN IF parsed.ok THEN [ok |-> TRUE, commits |-> sort_desc(parsed.commits)]
       ELSE parsed

(***************************************************************************)
(* HEAD and branch refs                                                    *)
(***************************************************************************)
RefPrefix == <<"ref: ", "refs/heads/">>

\* format!("ref: refs/heads/{}", branch_name)
HeadRef(name) == RefPrefix \o name

get_current_branch(head) ==
    IF starts_with(head, <<"ref: ">>)
    THEN trim(trim_start_matches(head, RefPrefix))
    ELSE master

\* the ref records alone
list_branches_refs(rf) == DOMAIN rf

list_branches(rf) == IF DOMAIN rf = {} THEN {master} ELSE DOMAIN rf

\* [res, id]
read_branch_commit(rf, name) ==
    IF name \notin DOMAIN rf THEN [res |-> "BranchNotFound", id |-> <<>>]
    ELSE [res |-> "ok", id |-> rf[name]]

update_branch(rf, name, commit_id) ==
    [b \in DOMAIN rf \cup {name} |-> IF b = name THEN commit_id ELSE rf[b]]

\* the test for an existing ref is lost
create_branch_overwrite(head, rf, branch_name) ==
    IF contains(branch_name, "/") \/ contains(branch_name, "\\") \/ branch_name = <<>>
    THEN [res |-> "InvalidName", refs |-> rf]
    ELSE LET target_branch == trim(trim_start_matches(trim(head), RefPrefix))
         IN IF target_branch \notin DOMAIN rf
            THEN [res |-> "IoFailure", refs |-> rf]
            ELSE [res |-> "ok",
                  refs |-> update_branch(rf, branch_name, rf[target_branch])]

\* [res, refs]
create_branch(head, rf, branch_name) ==
    IF contains(branch_name, "/") \/ contains(branch_name, "\\") \/ branch_name = <<>>
    THEN [res |-> "InvalidName", refs |-> rf]
    ELSE IF branch_name \in DOMAIN rf
    THEN [res |-> "BranchExists", refs |-> rf]
    ELSE LET head_content == trim(head)
             target_branch == trim(trim_start_matches(head_content, RefPrefix))
         IN IF starts_with(head_content, <<"ref: ">>)
            THEN IF target_branch \notin DOMAIN rf
                 THEN [res |-> "IoFailure", refs |-> rf]
                 ELSE [res |-> "ok",
                       refs |-> update_branch(rf, branch_name, rf[target_branch])]
            ELSE [res |-> "ok", refs |-> update_branch(rf, branch_name, head_content)]

\* the test against the current branch is lost
delete_branch_any(head, rf, branch_name) ==
    IF branch_name = master
    THEN [res |-> "CannotDeleteDefault", refs |-> rf]
    ELSE IF branch_name \notin DOMAIN rf
    THEN [res |-> "BranchNotFound", refs |-> rf]
    ELSE [res |-> "ok", refs |-> [b \in DOMAIN rf \ {branch_name} |-> rf[b]]]

\* [res, refs]
delete_branch(head, rf, branch_name) ==
    IF branch_name = get_current_branch(head)
    THEN [res |-> "CannotDeleteCurrent", refs |-> rf]
    ELSE IF branch_name = master
    THEN [res |-> "CannotDeleteDefault", refs |-> rf]
    ELSE IF branch_name \notin DOMAIN rf
    THEN [res |-> "BranchNotFound", refs |-> rf]
    ELSE [res |-> "ok", refs |-> [b \in DOMAIN rf \ {branch_name} |-> rf[b]]]

(***************************************************************************)
(* Checkout                                                                *)
(***************************************************************************)
\* [res, wt]: the entries are written in order; the first failure stops
RECURSIVE restore_entries(_, _, _)
restore_entries(files, tree, entries) ==
    IF entries = <<>> THEN [res |-> "ok", wt |-> tree]
    ELSE LET entry == Head(entries)
             blob == read_object(files, entry.hash)
         IN IF blob.res # "ok" THEN [res |-> blob.res, wt |-> tree]
            ELSE restore_entries(files,
                                 write_file(tree, Canonical(entry.path), blob.bytes.data),
                                 Tail(entries))

\* the working tree is emptied before the entries are written
restore_working_dir_pruned(files, tree, commit_id) ==
    LET commit_content == read_object(files, commit_id)
    IN IF commit_content.res # "ok" THEN [res |-> commit_content.res, wt |-> tree]
       ELSE LET snapshot == read_object(files, parse_commit(commit_content.bytes))
            IN IF snapshot.res # "ok" THEN [res |-> snapshot.res, wt |-> tree]
               ELSE restore_entries(files, <<>>, snapshot.bytes.data)

\* [res, wt]
restore_working_dir(files, tree, commit_id) ==
    LET commit_content == read_object(files, commit_id)
    IN IF commit_content.res # "ok" THEN [res |-> commit_content.res, wt |-> tree]
       ELSE LET snapshot == read_object(files, parse_commit(commit_content.bytes))
            IN IF snapshot.res # "ok" THEN [res |-> snapshot.res, wt |-> tree]
               ELSE restore_entries(files, tree, snapshot.bytes.data)

\* [res, via, head, wt]
checkout_branch(files, tree, head, rf, branch_name) ==
    IF branch_name \notin list_branches(rf)
    THEN [res |-> "BranchNotFound", via |-> "branch", head |-> head, wt |-> tree]
    ELSE IF get_current_branch(head) = branch_name
    THEN [res |-> "ok", via |-> "already", head |-> head, wt |-> tree]
    ELSE LET commit_id == read_branch_commit(rf, branch_name)
         IN IF commit_id.res # "ok"
            THEN [res |-> commit_id.res, via |-> "branch", head |-> head, wt |-> tree]
            ELSE LET restored == restore_working_dir(files, tree, commit_id.id)
                 IN [res |-> restored.res, via |-> "branch",
                     head |-> HeadRef(branch_name), wt |-> restored.wt]

\* [res, via, head, wt]
checkout_file(files, tree, head, rf, file_path) ==
    LET abs_path == get_absolute_path(tree, file_path)
        rel_path == normalize_path(abs_path.path)
        commit_id == read_branch_commit(rf, get_current_branch(head))
        fail(r) == [res |-> r, via |-> "file", head |-> head, wt |-> tree]
    IN IF ~abs_path.ok THEN fail("PathNotFound")
       ELSE IF commit_id.res # "ok" THEN fail(commit_id.res)
       ELSE LET commit_content == read_object(files, commit_id.id)
            IN IF commit_content.res # "ok" THEN fail(commit_content.res)
               ELSE LET snapshot == read_object(files, parse_commit(commit_content.bytes))
                    IN IF snapshot.res # "ok" THEN fail(snapshot.res)
                       ELSE IF ~HasPath(snapshot.bytes.data, rel_path)
                       THEN fail("PathNotInSnapshot")
                       ELSE LET entry == snapshot.bytes.data[FirstAt(snapshot.bytes.data, rel_path)]
                                blob == read_object(files, entry.hash)
                            IN IF blob.res # "ok" THEN fail(blob.res)
                               ELSE [res |-> "ok", via |-> "file", head |-> head,
                                     wt |-> write_file(tree, abs_path.path, blob.bytes.data)]

\* an existing file of that name is restored before the branches are looked at
checkout_file_first(files, tree, head, rf, target) ==
    IF is_file(tree, Canonical(target))
    THEN checkout_file(files, tree, head, rf, target)
    ELSE checkout_branch(files, tree, head, rf, target)

is_branch_target(rf, target) == target \in list_branches(rf)

checkout(files, tree, head, rf, target) ==
    IF is_branch_target(rf, target)
    THEN checkout_branch(files, tree, head, rf, target)
    ELSE checkout_file(files, tree, head, rf, target)

(***************************************************************************)
(* The commands.  Every command runs to completion before the next one;    *)
(* last records the command, its argument and its outcome.                 *)
(***************************************************************************)
Ran(cmd, arg, res, via) == [cmd |-> cmd, arg |-> arg, res |-> res, via |-> via]

\* create_repo_dirs: index "[]", HEAD on master, an empty master ref
Init ==
    /\ wt = <<>>
    /\ index = <<>>
    /\ indexFile = "array"
    /\ objects = <<>>
    /\ objDirs = {}
    /\ refs = [b \in {master} |-> <<>>]
    /\ HEAD = HeadRef(master)
    /\ logText = <<>>
    /\ now = 0
    /\ last = Ran("init", <<>>, "ok", "")
    /\ made = <<>>

\* The user edits the working tree between commands.
WriteFile(f, c) ==
    /\ wt' = write_file(wt, f, c)
    /\ last' = Ran("edit", <<>>, "ok", "")
    /\ UNCHANGED <<index, indexFile, objects, objDirs, refs, HEAD, logText, now, made>>

DeleteFile(f) ==
    /\ f \in DOMAIN wt
    /\ wt' = remove_file(wt, f)
    /\ last' = Ran("edit", <<>>, "ok", "")
    /\ UNCHANGED <<index, indexFile, objects, objDirs, refs, HEAD, logText, now, made>>

\* The walk of a directory keeps the entries whose path does not start with
\* ".rust-git"; the paths walked are absolute, so none is dropped.  Every
\* add of .rust-git stores a new object for the index it finds: the walks
\* over .rust-git are taken while the store holds fewer than MaxObjects.
Add(path) ==
    LET abs_path == get_absolute_path(wt, path)
        read == read_index(indexFile, index)
        index_array == IF read.is_array THEN read.entries ELSE <<>>
        st == [idx |-> index_array, dirs |-> objDirs, files |-> objects]
        base == BaseFiles(wt, indexFile, index, HEAD, refs, logText)
        disk == DiskOf(base, objects)
        must == {f \in DOMAIN disk : under(f, abs_path.path)}
    IN IF ~abs_path.ok
       THEN /\ last' = Ran("add", path, "PathNotFound", "")
            /\ UNCHANGED <<wt, index, indexFile, objects, objDirs, refs, HEAD, logText, now, made>>
       ELSE IF read.res # "ok"
       THEN /\ last' = Ran("add", path, read.res, "")
            /\ UNCHANGED <<wt, index, indexFile, objects, objDirs, refs, HEAD, logText, now, made>>
       ELSE /\ under(IndexPath, abs_path.path) => Cardinality(DOMAIN objects) < MaxObjects
            /\ \E staged \in (IF is_file(wt, abs_path.path)
                               THEN {add_single_file(disk, st, abs_path.path)}
                               ELSE add_walk(base, abs_path.path, st, must, <<>>)) :
                   /\ index' = staged.idx
                   /\ indexFile' = "array"
                   /\ objects' = staged.files
                   /\ objDirs' = staged.dirs
            /\ last' = Ran("add", path, "ok", IF is_file(wt, abs_path.path) THEN "file" ELSE "dir")
            /\ UNCHANGED <<wt, refs, HEAD, logText, now, made>>

Rm(path) ==
    LET abs_path == get_absolute_path(wt, path)
        rel_path == abs_path.path
        read == read_index(indexFile, index)
        entries == IF read.is_array THEN read.entries ELSE <<>>
        index_array == retain(entries, rel_path)
        removed == Len(index_array) # Len(entries)
    IN IF ~abs_path.ok
       THEN /\ last' = Ran("rm", path, "PathNotFound", "")
            /\ UNCHANGED <<wt, index, indexFile, objects, objDirs, refs, HEAD, logText, now, made>>
       ELSE IF read.res # "ok"
       THEN /\ last' = Ran("rm", path, read.res, "")
            /\ UNCHANGED <<wt, index, indexFile, objects, objDirs, refs, HEAD, logText, now, made>>
       ELSE IF ~removed
       THEN /\ last' = Ran("rm", path, "NotStaged", "")
            /\ UNCHANGED <<wt, index, indexFile, objects, objDirs, refs, HEAD, logText, now, made>>
       ELSE /\ wt' = IF is_file(wt, abs_path.path)
                    THEN remove_file(wt, abs_path.path)
                    ELSE remove_dir_all(wt, abs_path.path)
            /\ index' = index_array
            /\ indexFile' = "array"
            /\ last' = Ran("rm", path, "ok", "")
            /\ UNCHANGED <<objects, objDirs, refs, HEAD, logText, now, made>>

\* Local::now().timestamp(): the clock does not go back.  Only the order of
\* the timestamps is read, so the first commit is taken at the initial time.
Clock(t, history) == IF history = <<>> THEN {t} ELSE {t, t + 1}

Commit(message, limit) ==
    IF read_index(indexFile, index).res # "ok"
    THEN /\ last' = Ran("commit", message, read_index(indexFile, index).res, "")
         /\ UNCHANGED <<wt, index, indexFile, objects, objDirs, refs, HEAD, logText, now, made>>
    ELSE IF ~read_index(indexFile, index).is_array
    THEN /\ last' = Ran("commit", message, "panic", "")
         /\ UNCHANGED <<wt, index, indexFile, objects, objDirs, refs, HEAD, logText, now, made>>
    ELSE IF is_empty(index)
    THEN /\ last' = Ran("commit", message, "EmptyIndex", "")
         /\ UNCHANGED <<wt, index, indexFile, objects, objDirs, refs, HEAD, logText, now, made>>
    ELSE /\ Len(made) < limit
         /\ \E timestamp \in Clock(now, made) :
              LET created == create_commit(index, [dirs |-> objDirs, files |-> objects],
                                           message, timestamp)
              IN /\ objects' = created.files
                 /\ objDirs' = created.dirs
                 /\ logText' = save_commit(logText, created.commit)
                 /\ now' = timestamp
                 /\ made' = Append(made, [commit |-> created.commit,
                                          branch |-> get_current_branch(HEAD)])
         /\ last' = Ran("commit", message, "ok", "")
         /\ UNCHANGED <<wt, index, indexFile, refs, HEAD>>

Log ==
    /\ last' = Ran("log", <<>>,
                   IF read_all_commits(logText).ok THEN "ok" ELSE "MalformedRecord", "")
    /\ UNCHANGED <<wt, index, indexFile, objects, objDirs, refs, HEAD, logText, now, made>>

BranchCreate(name) ==
    LET r == create_branch(HEAD, refs, name)
    IN /\ refs' = r.refs
       /\ last' = Ran("branch", name, r.res, "create")
       /\ UNCHANGED <<wt, index, indexFile, objects, objDirs, HEAD, logText, now, made>>

BranchDelete(name) ==
    LET r == delete_branch(HEAD, refs, name)
    IN /\ refs' = r.refs
       /\ last' = Ran("branch", name, r.res, "delete")
       /\ UNCHANGED <<wt, index, indexFile, objects, objDirs, HEAD, logText, now, made>>

Checkout(target) ==
    LET r == checkout(objects, wt, HEAD, refs, target)
    IN /\ wt' = r.wt
       /\ HEAD' = r.head
       /\ last' = Ran("checkout", target, r.res, r.via)
       /\ UNCHANGED <<index, indexFile, objects, objDirs, refs, logText, now, made>>

\* The user removes or overwrites .rust-git/index by hand.
CorruptIndex(form) ==
    /\ indexFile' = form
    /\ index' = <<>>
    /\ last' = Ran("edit", <<>>, "ok", "")
    /\ UNCHANGED <<wt, objects, objDirs, refs, HEAD, logText, now, made>>

\* The user empties .rust-git/refs/heads by hand.
ClearRefs ==
    /\ refs' = <<>>
    /\ last' = Ran("edit", <<>>, "ok", "")
    /\ UNCHANGED <<wt, index, indexFile, objects, objDirs, HEAD, logText, now, made>>

\* The user records a commit of the log in the file of an existing branch,
\* as update_branch would; no command does it.
WriteRef(b) ==
    /\ b \in DOMAIN refs
    /\ \E i \in 1..Len(made) : refs' = update_branch(refs, b, made[i].commit.id)
    /\ last' = Ran("edit", <<>>, "ok", "")
    /\ UNCHANGED <<wt, index, indexFile, objects, objDirs, HEAD, logText, now, made>>

NextOver(files, paths, names, targets, messages, limit) ==
    \/ \E f \in files : \E c \in FileContents(f) : WriteFile(f, c)
    \/ \E f \in files : DeleteFile(f)
    \/ \E p \in paths : Add(p)
    \/ \E p \in paths : Rm(p)
    \/ \E m \in messages : Commit(m, limit)
    \/ Log
    \/ \E n \in names : BranchCreate(n)
    \/ \E n \in names : BranchDelete(n)
    \/ \E t \in targets : Checkout(t)

Next == NextOver(WtFiles, PathArgs, NameArgs, TargetArgs, Messages, MaxCommits)

Spec == Init /\ [][Next]_vars

NextLog == NextOver({feat}, {feat}, {master}, {master}, LogMessages, MaxCommits)

SpecLog == Init /\ [][NextLog]_vars

NextRefs == NextOver({feat}, {feat}, RefsNameArgs, RefsTargetArgs, Messages, MaxCommits)

SpecRefs == Init /\ [][NextRefs]_vars

NextDir == NextOver(DirFiles, DirPathArgs, {master}, {master}, Messages, MaxDirCommits)

SpecDir == Init /\ [][NextDir]_vars

NextTwice == NextOver(TwiceFiles, TwicePathArgs, {master}, {master}, Messages, MaxTwiceCommits)

SpecTwice == Init /\ [][NextTwice]_vars

NextIndex ==
    \/ NextOver({feat}, {feat}, {master}, {master}, Messages, MaxCommits)
    \/ \E form \in BrokenForms : CorruptIndex(form)

SpecIndex == Init /\ [][NextIndex]_vars

NextNoRefs ==
    \/ NextOver({feat}, {feat}, NameArgs, TargetArgs, Messages, MaxCommits)
    \/ ClearRefs

SpecNoRefs == Init /\ [][NextNoRefs]_vars

\* Branch refs that hold commits, so that checkout has a snapshot to restore.
NextRestore ==
    \/ NextOver(RestoreFiles, RestorePathArgs, RestoreNameArgs, TargetArgs, Messages, MaxCommits)
    \/ \E b \in TargetArgs : WriteRef(b)

SpecRestore == Init /\ [][NextRestore]_vars

NextMeta == NextOver({feat}, MetaPathArgs, {master}, {master}, Messages, MaxCommits)

SpecMeta == Init /\ [][NextMeta]_vars

(***************************************************************************)
(* Properties                                                              *)
(***************************************************************************)
current_branch == get_current_branch(HEAD)

\* The entries of the snapshot a commit recorded, read back from the store.
SnapshotOf(commit) == read_object(objects, commit.tree_hash).bytes.data

\* The position in made of the last commit made on branch b, 0 if none.
LastMadeOn(b) ==
    IF \E i \in 1..Len(made) : made[i].branch = b
    THEN CHOOSE i \in 1..Len(made) :
             made[i].branch = b /\ \A j \in (i + 1)..Len(made) : made[j].branch # b
    ELSE 0

RanCommit == last.cmd = "commit" /\ last.res = "ok"

\* C1: after every successful commit the new commit is in the commit log and
\* the ref of the active branch holds the new commit's id, so that
\* read_branch_commit(current_branch()) returns the id of the last commit
\* made on that branch.
C1_CommitAdvancesBranch ==
    RanCommit =>
        LET c == made[Len(made)].commit
            tip == read_branch_commit(refs, current_branch)
        IN /\ \E i \in 1..Len(logText) : logText[i] = [k |-> "json", v |-> <<c>>]
           /\ tip.res = "ok"
           /\ tip.id = c.id

\* C2: once f was added with content C and committed, checkout of f on the
\* branch the commit was made on succeeds and leaves f with content C, also
\* when f was modified or deleted after the commit.
C2_RoundTrip ==
    (last.cmd = "checkout" /\ last.via = "file" /\ LastMadeOn(current_branch) # 0) =>
        LET f == Canonical(last.arg)
            snapshot == SnapshotOf(made[LastMadeOn(current_branch)].commit)
            p == normalize_path(f)
        IN HasPath(snapshot, p) =>
               /\ last.res = "ok"
               /\ f \in DOMAIN wt
               /\ Sha1(BlobBytes(wt[f])) = snapshot[FirstAt(snapshot, p)].hash

ValidName(n) == n # <<>> /\ ~contains(n, "/") /\ ~contains(n, "\\")

\* C3: create_branch(name) with a valid name that has no ref yet fails with
\* NoCommits when the branch HEAD is attached to is unborn, and creates no
\* ref.
C3_UnbornCreateFails ==
    [][(/\ last'.cmd = "branch" /\ last'.via = "create"
        /\ ValidName(last'.arg) /\ last'.arg \notin DOMAIN refs
        /\ current_branch \in DOMAIN refs /\ refs[current_branch] = <<>>)
       => (last'.res = "NoCommits" /\ refs' = refs)]_vars

\* C4: commit on an index with no entries fails with EmptyIndex and leaves
\* the object store, the refs, HEAD, the commit log and the index as they
\* were.
C4_EmptyIndexCommit ==
    [][(last'.cmd = "commit" /\ Len(index) = 0)
       => (/\ last'.res = "EmptyIndex"
           /\ UNCHANGED <<wt, index, objects, objDirs, refs, HEAD, logText>>)]_vars

\* a commit was refused on an index emptied by rm after an earlier commit
C4_Witness ==
    last.cmd = "commit" /\ last.res = "EmptyIndex" /\ index = <<>> /\ made # <<>>

EntriesFor(idx, p) == {i \in 1..Len(idx) : idx[i].path = p}

\* C5: the index holds at most one entry per path in every reachable state,
\* and right after a successful add of a file p it holds exactly one entry
\* for p, with the digest of p's current content.
C5_OneEntryPerPath ==
    /\ \A i, j \in 1..Len(index) : index[i].path = index[j].path => i = j
    /\ (last.cmd = "add" /\ last.res = "ok" /\ last.via = "file") =>
           LET f == Canonical(last.arg)
               at == EntriesFor(index, normalize_path(f))
           IN /\ Cardinality(at) = 1
              /\ \A i \in at : index[i].hash = Sha1(BlobBytes(wt[f]))

\* the last add restaged the first of two entries: an update in place
C5_Witness ==
    /\ last.cmd = "add" /\ last.res = "ok" /\ last.via = "file"
    /\ Len(index) = 2
    /\ index[1].path = normalize_path(Canonical(last.arg))
    /\ index[1].hash = Sha1(BlobBytes("world"))

\* C6: rm of a path that has no entry in the index fails with NotStaged,
\* leaves the index unchanged and deletes no file.
C6_NotStaged ==
    [][(last'.cmd = "rm" /\ ~HasPath(index, normalize_path(Canonical(last'.arg))))
       => (last'.res = "NotStaged" /\ index' = index /\ wt' = wt)]_vars

\* C7: delete_branch(name) fails and removes no ref when name is the active
\* branch or the default branch, whether or not name has a ref; so the ref
\* of the default branch and that of the active branch survive every
\* delete_branch.
C7_ProtectedBranches ==
    [][(last'.cmd = "branch" /\ last'.via = "delete")
       => /\ last'.arg \in {current_branch, master}
              => (/\ last'.res \in {"CannotDeleteCurrent", "CannotDeleteDefault"}
                  /\ refs' = refs)
          /\ master \in DOMAIN refs => master \in DOMAIN refs'
          /\ current_branch \in DOMAIN refs => current_branch \in DOMAIN refs']_vars

\* the delete of an active branch other than master, which has a ref, was refused
C7_Witness ==
    /\ last.cmd = "branch" /\ last.via = "delete"
    /\ last.arg = current_branch /\ last.arg # master
    /\ last.arg \in DOMAIN refs
    /\ last.res = "CannotDeleteCurrent"

Staged(path) ==
    IF is_file(wt, Canonical(path)) THEN {Canonical(path)}
    ELSE Beneath(wt, Canonical(path))

\* C8: get(put(b)) = b for the bytes of every object put, also when the same
\* bytes were put before and when the bucket directory already exists: after
\* a successful add every file staged reads back from the store under its
\* digest, and after a successful commit so do the snapshot and the commit
\* text.
C8_PutGet ==
    /\ (last.cmd = "add" /\ last.res = "ok") =>
           \A f \in Staged(last.arg) :
               read_object(objects, Sha1(BlobBytes(wt[f])))
                   = [res |-> "ok", bytes |-> BlobBytes(wt[f])]
    /\ RanCommit =>
           LET c == made[Len(made)].commit
           IN /\ read_object(objects, c.tree_hash)
                     = [res |-> "ok", bytes |-> TreeBytes(index)]
              /\ read_object(objects, c.id)
                     = [res |-> "ok",
                        bytes |-> CommitBytes(c.tree_hash, c.timestamp, c.message)]

\* the same bytes were put twice: two paths are staged with one digest
C8_Witness ==
    /\ last.cmd = "add" /\ last.res = "ok"
    /\ Len(index) = 2 /\ index[1].hash = index[2].hash
    /\ Cardinality(DOMAIN objects) >= 2

Bijections(n) ==
    {f \in [1..n -> 1..n] : \A i, j \in 1..n : f[i] = f[j] => i = j}

\* r is the commits made, newest first, equal timestamps in the order made
InLogOrder(r) ==
    /\ Len(r) = Len(made)
    /\ \E f \in Bijections(Len(made)) :
           /\ \A i \in 1..Len(r) : r[i] = made[f[i]].commit
           /\ \A i, j \in 1..Len(r) :
                  i < j => \/ r[i].timestamp > r[j].timestamp
                           \/ r[i].timestamp = r[j].timestamp /\ f[i] < f[j]

\* C9: after any k successful commits, with any messages, log() succeeds and
\* returns exactly the k commits made, each with its message, newest first
\* and equal timestamps in insertion order; the empty sequence when k = 0.
C9_LogReturnsAll ==
    LET r == read_all_commits(logText)
    IN r.ok /\ InLogOrder(r.commits)

\* C10: checkout(target) switches branch, and never restores a path, exactly
\* when target is a branch name, also when a file of that name exists.
C10_BranchFirst ==
    last.cmd = "checkout" =>
        (last.via \in {"branch", "already"} <=> last.arg \in list_branches(refs))

\* checkout of a name that is a branch and an existing file switched branch
C10_Witness ==
    /\ last.cmd = "checkout" /\ last.via = "branch"
    /\ last.arg \in DOMAIN refs
    /\ Canonical(last.arg) \in DOMAIN wt

RanAddDir == last.cmd = "add" /\ last.res = "ok" /\ last.via = "dir"

OutsideOf(idx, paths) == SelectSeq(idx, LAMBDA e : e.path \notin paths)

\* C11: add(d) of a directory d stages every regular file beneath d as its
\* own index entry, under the path relative to the repository with forward
\* slashes and with the digest of the file; no entry is d or another
\* directory; the entries for paths outside d stay as they were.
C11_DirectoryAdd ==
    [][RanAddDir' =>
        LET d == Canonical(last'.arg)
            staged == {normalize_path(f) : f \in Beneath(wt, d)}
        IN /\ \A f \in Beneath(wt, d) :
                  /\ Cardinality(EntriesFor(index', normalize_path(f))) = 1
                  /\ \A i \in EntriesFor(index', normalize_path(f)) :
                         index'[i].hash = Sha1(BlobBytes(wt[f]))
           /\ \A i \in 1..Len(index') :
                  /\ ~contains(index'[i].path, "\\")
                  /\ ~is_dir(Canonical(index'[i].path))
           /\ OutsideOf(index', staged) = OutsideOf(index, staged)]_vars

\* add of a directory staged its two files beside an entry outside it
C11_Witness ==
    /\ RanAddDir /\ last.arg = dirD
    /\ Len(index) = 3
    /\ index[1].path = feat
    /\ {index[2].path, index[3].path} = {normalize_path(nested), normalize_path(nested2)}

\* C12: after add of any directory, the repository root included, the index
\* holds no entry whose path lies under .rust-git: the index, HEAD, the
\* refs, the objects and the log are never staged.
C12_MetadataNeverStaged ==
    \A i \in 1..Len(index) : ~starts_with(index[i].path, rustGit \o <<"/">>)

\* The entries of the snapshot of the commit a ref names; none when the ref
\* is empty.
SnapshotAt(commit_id) ==
    IF commit_id = <<>> THEN <<>>
    ELSE read_object(objects,
                     parse_commit(read_object(objects, commit_id).bytes)).bytes.data

\* C13: checkout of a listed branch other than the current one, its ref
\* empty or not, ends without failure with HEAD attached to that branch,
\* and every entry of the snapshot of its commit is in the working tree
\* with the content of its blob.
C13_SwitchBranch ==
    [][(/\ last'.cmd = "checkout"
        /\ last'.arg \in list_branches(refs)
        /\ last'.arg # current_branch)
       => (/\ last'.res = "ok"
           /\ get_current_branch(HEAD') = last'.arg
           /\ LET entries == SnapshotAt(read_branch_commit(refs, last'.arg).id)
              IN \A i \in 1..Len(entries) :
                     /\ Canonical(entries[i].path) \in DOMAIN wt'
                     /\ BlobBytes(wt'[Canonical(entries[i].path)])
                            = read_object(objects, entries[i].hash).bytes)]_vars

\* C14: checkout of a path resolves the latest commit of the current branch
\* and its snapshot; with no entry for exactly that path it fails with
\* PathNotInSnapshot and changes nothing; otherwise it overwrites that one
\* file with the content of its blob and leaves the other files, the index,
\* HEAD, the refs, the log and the object store as they were.
C14_RestoreSinglePath ==
    [][(/\ last'.cmd = "checkout" /\ last'.via = "file"
        /\ LastMadeOn(current_branch) # 0)
       => LET f == Canonical(last'.arg)
              p == normalize_path(f)
              snapshot == SnapshotOf(made[LastMadeOn(current_branch)].commit)
          IN IF ~HasPath(snapshot, p)
             THEN /\ last'.res = "PathNotInSnapshot"
                  /\ UNCHANGED <<wt, index, objects, objDirs, refs, HEAD, logText>>
             ELSE /\ last'.res = "ok"
                  /\ wt' = write_file(wt, f,
                                read_object(objects,
                                    snapshot[FirstAt(snapshot, p)].hash).bytes.data)
                  /\ UNCHANGED <<index, objects, objDirs, refs, HEAD, logText>>]_vars

\* C15: with the index file missing, or holding text that is no serialized
\* entry list, add(p) of an existing file succeeds and leaves an index that
\* holds exactly p, and commit fails with EmptyIndex.
C15_BrokenIndexIsEmpty ==
    [][indexFile # "array" =>
        /\ (last'.cmd = "add" /\ is_file(wt, Canonical(last'.arg))) =>
               /\ last'.res = "ok"
               /\ indexFile' = "array"
               /\ index' = <<[path |-> normalize_path(Canonical(last'.arg)),
                              hash |-> Sha1(BlobBytes(wt[Canonical(last'.arg)]))]>>
        /\ last'.cmd = "commit" => last'.res = "EmptyIndex"]_vars

\* C16: right after init the repository has exactly one branch, the default
\* one, with an empty ref and HEAD attached to it; in every state the
\* commands reach list_branches() contains the default branch, also when
\* no ref record is on disk.
C16_DefaultListed ==
    /\ master \in list_branches(refs)
    /\ last.cmd = "init" =>
           /\ list_branches(refs) = {master}
           /\ refs = [b \in {master} |-> <<>>]
           /\ current_branch = master

\* with no ref record on disk, checkout of the default branch from another
\* one took it for a branch
C16_Witness ==
    /\ refs = <<>>
    /\ last.cmd = "checkout" /\ last.arg = master /\ last.via = "branch"
    /\ last.res = "BranchNotFound"

\* C17: a successful commit leaves the index as it was, and the object at
\* the snapshot digest of the commit holds exactly the entries of the index
\* in their order, not a difference to an earlier snapshot; so a commit made
\* on the index that the commit before recorded has the same snapshot digest.
C17_CommitKeepsIndex ==
    [][RanCommit' =>
        LET c == made'[Len(made')].commit
        IN /\ index' = index
           /\ indexFile' = indexFile
           /\ read_object(objects', c.tree_hash)
                  = [res |-> "ok", bytes |-> TreeBytes(index)]
           /\ (Len(made) >= 1 /\ SnapshotOf(made[Len(made)].commit) = index)
                  => c.tree_hash = made[Len(made)].commit.tree_hash]_vars

\* two commits in a row on an index of two entries recorded one digest
C17_Witness ==
    /\ RanCommit /\ Len(made) = 2
    /\ Len(index) = 2
    /\ made[1].commit.tree_hash = made[2].commit.tree_hash
    /\ SnapshotOf(made[2].commit) = index

\* C18: across every command an object that is in the store stays there
\* with the same bytes, and the address of every stored object is the
\* digest of its bytes.
C18_StoreGrowsOnly ==
    [][/\ \A h \in DOMAIN objects : h \in DOMAIN objects' /\ objects'[h] = objects[h]
       /\ objDirs \subseteq objDirs'
       /\ \A h \in DOMAIN objects' : h = Sha1(objects'[h]) /\ h[1] \in objDirs']_vars

\* a commit was stored while the blob of a content that is staged no more
\* is still in the store beside the one that replaced it
C18_Witness ==
    /\ RanCommit
    /\ Len(index) = 1
    /\ index[1].hash = Sha1(BlobBytes("world"))
    /\ Sha1(BlobBytes("hello")) \in DOMAIN objects
    /\ objects[Sha1(BlobBytes("hello"))] = BlobBytes("hello")

\* C19: create_branch(name) fails with InvalidName when name is empty or
\* holds a path separator, and with BranchExists when name has a ref, and
\* then leaves the refs and HEAD as they were; when it succeeds the new ref
\* holds the commit id in the ref of the active branch, HEAD names the
\* branch it named before and no other ref has changed.
C19_CreateBranch ==
    [][(last'.cmd = "branch" /\ last'.via = "create") =>
        LET name == last'.arg
        IN /\ ~ValidName(name) =>
                  last'.res = "InvalidName" /\ refs' = refs /\ HEAD' = HEAD
           /\ (ValidName(name) /\ name \in DOMAIN refs) =>
                  last'.res = "BranchExists" /\ refs' = refs /\ HEAD' = HEAD
           /\ last'.res = "ok" =>
                  /\ name \notin DOMAIN refs
                  /\ current_branch \in DOMAIN refs
                  /\ DOMAIN refs' = DOMAIN refs \cup {name}
                  /\ refs'[name] = refs[current_branch]
                  /\ \A b \in DOMAIN refs : refs'[b] = refs[b]
                  /\ HEAD' = HEAD]_vars

\* a branch was created while HEAD was on a branch other than the default
C19_Witness ==
    /\ last.cmd = "branch" /\ last.via = "create" /\ last.res = "ok"
    /\ current_branch = feat
    /\ last.arg = spFeat
    /\ DOMAIN refs = {master, feat, spFeat}
    /\ refs[spFeat] = refs[feat]

\* C20: for every path p that add staged as a single file, a nested one
\* such as d/a included, a following rm(p) succeeds, removes exactly the
\* entry whose path is the normalized p and leaves the other entries
\* unchanged and in order.
C20_AddRmAgree ==
    [][(/\ last.cmd = "add" /\ last.res = "ok" /\ last.via = "file"
        /\ last'.cmd = "rm" /\ last'.arg = last.arg)
       => (/\ last'.res = "ok"
           /\ index' = retain(index, normalize_path(Canonical(last'.arg))))]_vars

RanRm == last.cmd = "rm" /\ last.res = "ok"

\* C21 as stated: a successful rm(p) changes the index alone; the file at p
\* in the working tree keeps its content and is not deleted, and the
\* object store, the refs, HEAD and the commit log are unchanged.
C21_RmKeepsFile ==
    [][RanRm' =>
        /\ wt' = wt
        /\ UNCHANGED <<objects, objDirs, refs, HEAD, logText>>]_vars

\* C21 as amended: a successful rm(p) removes the entries for p from the
\* index and deletes the file at p from the working tree; every other file
\* keeps its content, and the object store, the refs, HEAD and the commit
\* log are unchanged.
C21_RmDeletesFile ==
    [][RanRm' =>
        LET f == Canonical(last'.arg)
        IN /\ f \in DOMAIN wt
           /\ DOMAIN wt' = DOMAIN wt \ {f}
           /\ \A g \in DOMAIN wt' : wt'[g] = wt[g]
           /\ ~HasPath(index', f)
           /\ Len(index') < Len(index)
           /\ UNCHANGED <<objects, objDirs, refs, HEAD, logText>>]_vars

\* rm took a staged file out of the index and the working tree, beside
\* another file that is staged and still there
C21_Witness ==
    /\ RanRm /\ last.arg = feat
    /\ feat \notin DOMAIN wt
    /\ nested \in DOMAIN wt
    /\ Len(index) = 1 /\ index[1].path = normalize_path(nested)

\* the last command was a switch to the branch last.arg that failed
FailedSwitch ==
    /\ last.cmd = "checkout" /\ last.via = "branch"
    /\ last.arg \in DOMAIN refs
    /\ last.res # "ok"

\* C22: a switch that fails in the restore (the commit, the snapshot or a
\* blob cannot be read, or the commit id of the branch is empty) reports
\* the failure with HEAD already naming the target branch and the entries
\* before the failing one written; a checkout of the same name that follows
\* reports that the branch is already the current one and restores nothing.
C22_NoRollback ==
    [][FailedSwitch' =>
        /\ HEAD' = HeadRef(last'.arg)
        /\ LET entries == SnapshotAt(refs[last'.arg])
           IN \E k \in 0..Len(entries) :
                  wt' = restore_entries(objects, wt, SubSeq(entries, 1, k)).wt
        /\ LET again == checkout(objects', wt', HEAD', refs', last'.arg)
           IN /\ again.via = "already" /\ again.res = "ok"
              /\ again.wt = wt' /\ again.head = HEAD']_vars

\* The snapshot the last checkout read: that of the target when the target
\* is a listed branch, that of the current branch when it is a path.
RestoredFrom(rf, head, target) ==
    LET b == IF is_branch_target(rf, target) THEN target ELSE get_current_branch(head)
    IN IF b \in DOMAIN rf THEN SnapshotAt(rf[b]) ELSE <<>>

EntryPaths(entries) == {Canonical(entries[i].path) : i \in 1..Len(entries)}

\* C23: checkout never prunes: every file of the working tree whose path is
\* no entry of the snapshot restored is still there afterwards with the
\* content it had, and checkout leaves the staging index as it was.
C23_NoPrune ==
    [][last'.cmd = "checkout" =>
        /\ \A f \in DOMAIN wt \ EntryPaths(RestoredFrom(refs, HEAD, last'.arg)) :
               f \in DOMAIN wt' /\ wt'[f] = wt[f]
        /\ index' = index /\ indexFile' = indexFile]_vars

\* a switch that restored feat from a snapshot without nested, nested still there
C23_Witness ==
    /\ last.cmd = "checkout" /\ last.via = "branch" /\ last.res = "ok"
    /\ last.arg = feat /\ refs[feat] # <<>>
    /\ EntryPaths(SnapshotAt(refs[feat])) = {feat}
    /\ nested \in DOMAIN wt
    /\ BlobBytes(wt[feat]) = read_object(objects, SnapshotAt(refs[feat])[1].hash).bytes
    /\ HasPath(index, normalize_path(feat))
    /\ index[FirstAt(index, normalize_path(feat))].hash # SnapshotAt(refs[feat])[1].hash

\* C24: in every state the commands reach, the branch HEAD resolves to is
\* one of the branches listed.
C24_HeadResolves == current_branch \in list_branches(refs)

\* The commit records written to the commit log, in file order.
LoggedCommits ==
    LET at == {i \in 1..Len(logText) : logText[i].k = "json"}
    IN {logText[i].v[1] : i \in at}

StoredTrees == {h \in DOMAIN objects : objects[h].kind = "tree"}

\* C25: in every state every digest of an index entry names a stored
\* object, every commit record of the log has its commit object and its
\* snapshot object in the store, and every entry of every stored snapshot
\* names an object of the store.
C25_ReferentialIntegrity ==
    /\ \A i \in 1..Len(index) : index[i].hash \in DOMAIN objects
    /\ \A c \in LoggedCommits :
           /\ c.id \in DOMAIN objects /\ objects[c.id].kind = "commit"
           /\ parse_commit(objects[c.id]) = c.tree_hash
           /\ c.tree_hash \in StoredTrees
    /\ \A h \in StoredTrees : \A i \in 1..Len(objects[h].data) :
           objects[h].data[i].hash \in DOMAIN objects

\* two commits with different snapshots in the log, the older one naming a
\* blob the index no longer names
C25_Witness ==
    /\ Len(made) = 2 /\ Cardinality(LoggedCommits) = 2
    /\ made[1].commit.tree_hash # made[2].commit.tree_hash
    /\ Len(index) = 2
    /\ \E i \in 1..Len(SnapshotOf(made[1].commit)) :
           \A j \in 1..Len(index) : index[j].hash # SnapshotOf(made[1].commit)[i].hash
====
